---- MODULE Spec2Model ----
(***************************************************************************)
(* ccusage: cache freshness and refresh coordination.                      *)
(*                                                                         *)
(* Processes sharing the cache file ~/.claude/usage-limits.json:           *)
(*   - the polling daemon (cmd_daemon),                                    *)
(*   - a status-line invocation (cmd_statusline -> _get_cached_usage),     *)
(*   - the one-shot commands status / json (cmd_status),                   *)
(* plus the environment: the wall clock, the external agent that owns the  *)
(* credentials file, and the operator who signals the daemon.              *)
(*                                                                         *)
(* Time is counted in whole seconds; expiresAt is in milliseconds as in    *)
(* the credentials file.                                                   *)
(***************************************************************************)
EXTENDS Integers, FiniteSets

\* ---------------------------------------------------------------- bounds
\* Last clock value explored.
MaxTime == 2
\* Largest max_age argument passed to _get_cached_usage.
MaxAgeArg == 2
\* Largest daemon --interval explored.
MaxInterval == 1
\* Largest percentage rendered.
MaxPct == 100

\* ------------------------------------------------------------ JSON values
\* updated_at of a mapping that has no such key (KeyError at line 211).
NoUpd == 0 - 1
\* updated_at that datetime.fromisoformat rejects (ValueError at line 211).
BadUpd == 0 - 2
\* Python None / JSON null in a numeric field.
NoneVal == 0 - 1
\* A mapping without the "plan" key.
NoPlan == ""

BucketKeys == {"5h", "7d", "7d_sonnet", "7d_opus"}

ApiKey(key) ==
    CASE key = "5h" -> "five_hour"
      [] key = "7d" -> "seven_day"
      [] key = "7d_sonnet" -> "seven_day_sonnet"
      [] key = "7d_opus" -> "seven_day_opus"

ApiKeys == {ApiKey(k) : k \in BucketKeys}

\* A bucket key that the mapping does not have.
NoBucket == [present |-> FALSE, pct |-> 0, has_resets_at |-> FALSE, resets_at |-> NoneVal]

NoBuckets == [k \in BucketKeys |-> NoBucket]

\* Contents of the cache file (and of values parsed from it).
\*   absent  : no such file                (FileNotFoundError)
\*   empty   : zero-length, just truncated (JSONDecodeError)
\*   garbage : bytes that are not JSON     (JSONDecodeError)
\*   nonobj  : valid JSON, not a mapping   (list, null, number)
\*   obj     : a JSON mapping
FileRec(kind, plan, upd, b) == [kind |-> kind, plan |-> plan, upd |-> upd, b |-> b]

Absent == FileRec("absent", NoPlan, NoUpd, NoBuckets)
Empty == FileRec("empty", NoPlan, NoUpd, NoBuckets)
Garbage == FileRec("garbage", NoPlan, NoUpd, NoBuckets)
NonObject == FileRec("nonobj", NoPlan, NoUpd, NoBuckets)
\* The literal {} returned at line 228.
EmptyMapping == FileRec("obj", NoPlan, NoUpd, NoBuckets)
\* Placeholder for a local variable that is not bound yet.
Unbound == FileRec("unbound", NoPlan, NoUpd, NoBuckets)

IsSnapshot(f) == f.kind = "obj" /\ f.upd >= 0

\* ------------------------------------------------------------- exceptions
\* Python's class test behind an `except <cls>` clause, for the exception
\* classes that occur in this program.
IsInstance(exc, cls) ==
    CASE cls = "BaseException" -> TRUE
      [] cls = "Exception" -> exc \notin {"SystemExit", "KeyboardInterrupt"}
      [] cls = "OSError" -> exc \in {"OSError", "FileNotFoundError", "URLError"}
      [] OTHER -> exc = cls

\* ------------------------------------------------------------ credentials
\* ~/.claude/.credentials.json as seen by get_credentials.
CredsRec(kind, token, expiresAt, tier) ==
    [kind |-> kind, accessToken |-> token, expiresAt |-> expiresAt, tier |-> tier]

\* File missing or not JSON: get_credentials returns None.
CredsNone == CredsRec("none", FALSE, 0, "")
\* claudeAiOauth without accessToken.
CredsNoToken == CredsRec("dict", FALSE, 0, "default_claude_max_5x")
\* A token that expires at 1000 ms.
CredsToken == CredsRec("dict", TRUE, 1000, "default_claude_max_5x")
\* claudeAiOauth without the "expiresAt" key.
NoExpiry == 0 - 1
\* A token without expiresAt.
CredsNoExpiry == CredsRec("dict", TRUE, NoExpiry, "default_claude_max_5x")
\* A token that expires at 2000 ms.
CredsTokenLate == CredsRec("dict", TRUE, 2000, "default_claude_max_5x")

CredsStates == {CredsNone, CredsNoToken, CredsToken}

\* The credentials files the one-shot commands are run against.
OneShotCreds == CredsStates \cup {CredsNoExpiry, CredsTokenLate}

\* str.removeprefix("default_claude_") on the tiers that occur.
RemovePrefix(tier) ==
    CASE tier = "default_claude_max_5x" -> "max_5x"
      [] OTHER -> tier

get_plan(c) ==
    IF c.kind = "none" THEN "unknown"
    ELSE RemovePrefix(IF c.tier # "" THEN c.tier ELSE "unknown")

\* ----------------------------------------------------------- raw response
RawBucket(kind, hasUtil, util, hasResets, resets) ==
    [kind |-> kind, hasUtil |-> hasUtil, utilization |-> util,
     hasResets |-> hasResets, resets_at |-> resets]

RawNull == RawBucket("null", FALSE, 0, FALSE, NoneVal)

\* The end-to-end example: 5h with resets_at, 7d without, the rest null.
RespExample ==
    [k \in ApiKeys |->
        CASE k = "five_hour" -> RawBucket("obj", TRUE, 35, TRUE, 5)
          [] k = "seven_day" -> RawBucket("obj", TRUE, 14, FALSE, NoneVal)
          [] OTHER -> RawNull]

\* A plan to which no bucket applies.
RespNoBuckets == [k \in ApiKeys |-> RawNull]

\* A response without the bucket's key: api_data.get gives None.
RawAbsent == RawBucket("absent", FALSE, 0, FALSE, NoneVal)

\* An empty JSON object in the place of a bucket.
RawEmpty == RawBucket("obj", FALSE, 0, FALSE, NoneVal)

\* A bucket object that lacks "utilization".
RespNoUtil ==
    [k \in ApiKeys |->
        CASE k = "five_hour" -> RawBucket("obj", FALSE, 0, TRUE, 5)
          [] OTHER -> RawNull]

ApiResponses == {RespExample, RespNoBuckets, RespNoUtil}

\* What the network does with one request: answer, or fail.
NetOutcomes ==
    {[kind |-> "error", body |-> RespNoBuckets]}
        \cup {[kind |-> "ok", body |-> r] : r \in ApiResponses}

\* Python truthiness of a raw bucket: None and {} are falsy.
Truthy(bucket) == bucket.kind = "obj" /\ (bucket.hasUtil \/ bucket.hasResets)

\* oauth.get("expiresAt", 0), line 75.
ExpiresAt(c) == IF c.expiresAt = NoExpiry THEN 0 ELSE c.expiresAt

\* An expiry test that already fails at the instant of expiry.
IsExpired_Inclusive(now_ms, expires_at) == now_ms >= expires_at

\* The expiry test, line 76.
IsExpired(now_ms, expires_at) == now_ms > expires_at

FetchResult(ok, exc, msg, http, data) ==
    [ok |-> ok, exc |-> exc, msg |-> msg, http |-> http, data |-> data]

fetch_usage(c, t, net) ==
    IF c.kind = "none"
    THEN FetchResult(FALSE, "RuntimeError", "No credentials", FALSE, RespNoBuckets)
    ELSE IF ~c.accessToken
    THEN FetchResult(FALSE, "RuntimeError", "No OAuth access token", FALSE, RespNoBuckets)
    ELSE IF IsExpired(t * 1000, ExpiresAt(c))
    THEN FetchResult(FALSE, "RuntimeError", "OAuth token expired", FALSE, RespNoBuckets)
    ELSE IF net.kind = "error"
    THEN FetchResult(FALSE, "URLError", "fetch failed", TRUE, RespNoBuckets)
    ELSE FetchResult(TRUE, "", "", TRUE, net.body)

\* Stamps that are not the time of normalization: the epoch, and a second
\* ahead.
UpdatedAt_Epoch(t) == 0
UpdatedAt_Ahead(t) == t + 1

\* datetime.now(timezone.utc).isoformat(), line 97, at time t.
UpdatedAt(t) == t

BuildResult(ok, exc, val) == [ok |-> ok, exc |-> exc, val |-> val]

build_usage_json(api_data, plan, t) ==
    IF \E k \in BucketKeys : Truthy(api_data[ApiKey(k)]) /\ ~api_data[ApiKey(k)].hasUtil
    THEN BuildResult(FALSE, "KeyError", Unbound)
    ELSE BuildResult(TRUE, "",
            FileRec("obj", plan, UpdatedAt(t),
                [k \in BucketKeys |->
                    IF Truthy(api_data[ApiKey(k)])
                    THEN [present |-> TRUE,
                          has_resets_at |-> TRUE,
                          pct |-> api_data[ApiKey(k)].utilization,
                          resets_at |-> IF api_data[ApiKey(k)].hasResets
                                        THEN api_data[ApiKey(k)].resets_at
                                        ELSE NoneVal]
                    ELSE NoBucket]))

\* ------------------------------------------------------------- cache file
ReadResult(ok, exc, val) == [ok |-> ok, exc |-> exc, val |-> val]

\* json.loads(USAGE_FILE.read_text())
read_usage_file(f) ==
    IF f.kind = "absent" THEN ReadResult(FALSE, "FileNotFoundError", Unbound)
    ELSE IF f.kind \in {"empty", "garbage"} THEN ReadResult(FALSE, "JSONDecodeError", Unbound)
    ELSE ReadResult(TRUE, "", f)

AgeResult(ok, exc, age) == [ok |-> ok, exc |-> exc, age |-> age]

\* datetime.fromisoformat(usage["updated_at"]) and the subtraction from now.
CacheAge(val, t) ==
    IF val.kind = "nonobj" THEN AgeResult(FALSE, "TypeError", 0)
    ELSE IF val.upd = NoUpd THEN AgeResult(FALSE, "KeyError", 0)
    ELSE IF val.upd = BadUpd THEN AgeResult(FALSE, "ValueError", 0)
    ELSE AgeResult(TRUE, "", t - val.upd)

\* Gates one second too strict, and inclusive.
IsFresh_OffByOne(age, max_age) == age + 1 < max_age
IsFresh_Inclusive(age, max_age) == age <= max_age

\* The freshness gate, line 213.
IsFresh(age, max_age) == age < max_age

\* Handlers that name one class only.
FallbackExcept_Narrow == "FileNotFoundError"
RefreshExcept_Narrow == "RuntimeError"
\* A handler for network failures only.
RefreshExcept_Network == "URLError"
DaemonExcept_Narrow == "RuntimeError"

\* The class named by each except clause: lines 215, 223, 227 and 201.
Step1Except == "Exception"
RefreshExcept == "Exception"
FallbackExcept == "Exception"
DaemonExcept == "Exception"

\* A writer that removes the file before it rewrites it.
OpenForWrite_Unlink(f) == Absent

\* Path.write_text opens the file with mode "w": whatever it held, the file
\* now exists and is empty.
OpenForWrite(f) == Empty

\* Length of the file's text, in entries of the mapping: json.dumps writes
\* "plan", "source" and "updated_at", then one entry per bucket. The plans,
\* percentages and timestamps stored here have one width each, so more
\* entries is a longer text. Text that is not a snapshot is taken to be
\* longer than any snapshot.
TextLength(f) ==
    CASE f.kind \in {"absent", "empty"} -> 0
      [] f.kind = "obj" -> 3 + Cardinality({k \in BucketKeys : f.b[k].present})
      [] OTHER -> 4 + Cardinality(BucketKeys)

\* Path.write_text writes at offset 0 of the file it opened. The open has
\* truncated the file; what another writer stored since then is overwritten
\* from the start, and its tail stays when it is the longer text.
WriteAtStart(f, text) ==
    IF TextLength(text) >= TextLength(f) THEN text ELSE Garbage

\* ------------------------------------------------------------- renderers
\* The colour tiers: R high alert, Y caution, G nominal.
\* cmd_status.color_pct, lines 140-143: p = int(pct) first. Percentages are
\* whole numbers here, which int() leaves as they are.
color_pct_status(pct) ==
    LET p == pct
    IN IF p >= 70 THEN "R" ELSE IF p >= 50 THEN "Y" ELSE "G"

\* A tier boundary one point too high.
color_pct_statusline_Strict(pct) ==
    IF pct > 70 THEN "R" ELSE IF pct >= 50 THEN "Y" ELSE "G"

\* cmd_statusline.color_pct, lines 240-242.
color_pct_statusline(pct) ==
    IF pct >= 70 THEN "R" ELSE IF pct >= 50 THEN "Y" ELSE "G"

\* statusline.py color_pct, lines 25-27.
color_pct_script(pct) ==
    IF pct >= 70 THEN "R" ELSE IF pct >= 50 THEN "Y" ELSE "G"

\* The bucket keys the compact status line shows.
LineKeys == {"5h", "7d", "7d_sonnet"}

NoColors == [k \in BucketKeys |-> "none"]

Line(printed, plan, tokens, colors) ==
    [printed |-> printed, plan |-> plan, tokens |-> tokens, colors |-> colors]

NoLine == Line(FALSE, "", {}, NoColors)

\* The tokens of the compact status line that come from the usage mapping,
\* lines 277-291: the buckets shown, each in the colour of its percentage.
StatusLine(u) ==
    Line(TRUE,
         IF u.plan = NoPlan THEN "?" ELSE u.plan,
         {k \in LineKeys : u.b[k].present},
         [k \in BucketKeys |->
            IF k \in LineKeys /\ u.b[k].present
            THEN color_pct_statusline(u.b[k].pct) ELSE "none"])

\* The same line as statusline.py prints it, lines 68-82.
ScriptLine(u) ==
    Line(TRUE,
         IF u.plan = NoPlan THEN "?" ELSE u.plan,
         {k \in LineKeys : u.b[k].present},
         [k \in BucketKeys |->
            IF k \in LineKeys /\ u.b[k].present
            THEN color_pct_script(u.b[k].pct) ELSE "none"])

\* The rows of the table cmd_status prints, lines 161-172: one per bucket
\* of the data, each in the colour of its percentage.
StatusTable(data) ==
    Line(TRUE, data.plan,
         {k \in BucketKeys : data.b[k].present},
         [k \in BucketKeys |->
            IF data.b[k].present THEN color_pct_status(data.b[k].pct) ELSE "none"])

\* ------------------------------------------------------------------ state
VARIABLES
    now,        \* wall clock, seconds
    creds,      \* the credentials file
    file,       \* the cache file
    pc,         \* cmd_statusline: position
    max_age,    \* _get_cached_usage: its argument
    read1,      \* _get_cached_usage: outcome of the first try block
    usage,      \* _get_cached_usage: usage as built at line 220
    ret,        \* cmd_statusline: usage, the value _get_cached_usage returned
    nfetch,     \* fetch_usage calls made by the current call
    nwrite,     \* times the current call opened the cache file for writing
    refresh,    \* how the second try block of the current call went
    crashAt,    \* where an exception left cmd_statusline
    out,        \* cmd_statusline: the line printed
    dpc,        \* cmd_daemon: position
    interval,   \* cmd_daemon: its argument
    wake,       \* cmd_daemon: when time.sleep returns at the earliest
    ddata,      \* cmd_daemon: data
    dprev,      \* the cache file as the daemon's write in progress found it
    dlog,       \* cmd_daemon: kind of the last line logged
    oneshot     \* status / json: how the last run ended

slvars == <<pc, max_age, read1, usage, ret, nfetch, nwrite, refresh, crashAt, out>>
dvars == <<dpc, interval, wake, ddata, dprev, dlog>>
vars == <<now, creds, file, slvars, dvars, oneshot>>

NoRead == [val |-> Unbound, exc |-> "", age |-> 0, done |-> FALSE]
NoRun == [ran |-> FALSE, exit |-> 0, err |-> ""]

\* A snapshot left by an earlier run.
OldSnapshot == build_usage_json(RespExample, "max_5x", 0).val

InitialFiles ==
    {Absent, Garbage, NonObject, OldSnapshot,
     FileRec("obj", "max_5x", NoUpd, NoBuckets),
     FileRec("obj", "max_5x", BadUpd, NoBuckets)}

\* No status line is being computed and no daemon runs.
NotStarted ==
    /\ pc = "idle" /\ max_age = 0 /\ read1 = NoRead
    /\ usage = Unbound /\ ret = Unbound /\ nfetch = 0 /\ nwrite = 0
    /\ refresh = "" /\ crashAt = "" /\ out = NoLine
    /\ dpc = "off" /\ interval = 0 /\ wake = 0
    /\ ddata = Unbound /\ dprev = Unbound /\ dlog = "none"

Init ==
    /\ now = 0
    /\ creds \in CredsStates
    /\ file \in InitialFiles
    /\ NotStarted
    /\ oneshot = NoRun

\* ------------------------------------------------------------ environment
Tick ==
    /\ now < MaxTime
    /\ now' = now + 1
    /\ UNCHANGED <<creds, file, slvars, dvars, oneshot>>

\* The external agent rewrites the credentials file.
CredsUpdate ==
    /\ \E c \in CredsStates : c # creds /\ creds' = c
    /\ UNCHANGED <<now, file, slvars, dvars, oneshot>>

\* ------------------------------------------------- cmd_statusline (a call)
\* An exception raised inside a try block of _get_cached_usage: on to
\* `handler` when the except clause catches it, out of cmd_statusline
\* otherwise.
SLRaise(exc, clause, handler) ==
    IF IsInstance(exc, clause)
    THEN pc' = handler /\ crashAt' = crashAt
    ELSE pc' = "crashed" /\ crashAt' = "_get_cached_usage"

\* _get_cached_usage returns v at line 214, 222, 226 or 228, and
\* cmd_statusline goes on through lines 277-297: usage.get(...), which only
\* a mapping has, and the print.
SLReturn(v) ==
    /\ ret' = v
    /\ IF v.kind = "obj"
       THEN pc' = "done" /\ out' = StatusLine(v) /\ crashAt' = crashAt
       ELSE pc' = "crashed" /\ out' = out /\ crashAt' = "render"

\* Lines 259-272: parse the host's JSON from stdin. Malformed input gives
\* cc = {}; valid JSON that is not a mapping has no .get.
SLStart ==
    /\ pc = "idle"
    /\ \E stdin \in {"object", "malformed", "nonobject"} :
          IF stdin = "nonobject"
          THEN pc' = "crashed" /\ crashAt' = "stdin" /\ max_age' = max_age
          ELSE /\ pc' = "read" /\ crashAt' = crashAt
               /\ max_age' \in 1..MaxAgeArg
    /\ UNCHANGED <<now, creds, file, read1, usage, ret, nfetch, nwrite, refresh, out,
                   dvars, oneshot>>

\* Lines 209-216: the first try block.
SLRead ==
    /\ pc = "read"
    /\ LET r == read_usage_file(file)
           a == IF r.ok THEN CacheAge(r.val, now) ELSE AgeResult(FALSE, r.exc, 0)
       IN /\ read1' = [val |-> r.val, exc |-> a.exc, age |-> a.age, done |-> TRUE]
          /\ IF a.ok
             THEN IF IsFresh(a.age, max_age)
                  THEN SLReturn(r.val)
                  ELSE pc' = "fetch" /\ UNCHANGED <<ret, out, crashAt>>
             ELSE SLRaise(a.exc, Step1Except, "fetch") /\ UNCHANGED <<ret, out>>
    /\ UNCHANGED <<now, creds, file, max_age, usage, nfetch, nwrite, refresh,
                   dvars, oneshot>>

\* Lines 219-220: fetch_usage(), then build_usage_json(api_data, get_plan()).
SLFetch ==
    /\ pc = "fetch"
    /\ nfetch' = nfetch + 1
    /\ \E net \in NetOutcomes :
          LET r == fetch_usage(creds, now, net)
              b == build_usage_json(r.data, get_plan(creds), now)
          IN IF ~r.ok
             THEN /\ SLRaise(r.exc, RefreshExcept, "fallback")
                  /\ usage' = usage /\ refresh' = "fetch_failed"
             ELSE IF ~b.ok
             THEN /\ SLRaise(b.exc, RefreshExcept, "fallback")
                  /\ usage' = usage /\ refresh' = "build_failed"
             ELSE /\ pc' = "write_open" /\ usage' = b.val /\ crashAt' = crashAt
                  /\ refresh' = refresh
    /\ UNCHANGED <<now, creds, file, max_age, read1, ret, nwrite, out,
                   dvars, oneshot>>

\* Line 221, first half: write_text opens the file with mode "w", which
\* truncates it, or fails to open it.
SLWriteOpen ==
    /\ pc = "write_open"
    /\ \E opened \in BOOLEAN :
          IF opened
          THEN /\ file' = OpenForWrite(file) /\ nwrite' = nwrite + 1 /\ usage' = usage
               /\ pc' = "write_data" /\ crashAt' = crashAt /\ refresh' = refresh
          ELSE /\ file' = file /\ nwrite' = nwrite /\ usage' = Unbound
               /\ SLRaise("OSError", RefreshExcept, "fallback")
               /\ refresh' = "open_failed"
    /\ UNCHANGED <<now, creds, max_age, read1, ret, nfetch, out,
                   dvars, oneshot>>

\* Line 221, second half, and line 222: the data reaches the file when
\* write_text flushes and closes it, or the flush fails.
SLWriteData ==
    /\ pc = "write_data"
    /\ \E written \in BOOLEAN :
          IF written
          THEN file' = WriteAtStart(file, usage) /\ SLReturn(usage) /\ refresh' = "ok"
          ELSE /\ file' = file /\ UNCHANGED <<ret, out>>
               /\ SLRaise("OSError", RefreshExcept, "fallback")
               /\ refresh' = "flush_failed"
    /\ usage' = Unbound
    /\ UNCHANGED <<now, creds, max_age, read1, nfetch, nwrite,
                   dvars, oneshot>>

\* Lines 223-228: the handler reads the cache file again.
SLFallback ==
    /\ pc = "fallback"
    /\ LET r == read_usage_file(file)
       IN IF r.ok
          THEN SLReturn(r.val)
          ELSE IF IsInstance(r.exc, FallbackExcept)
          THEN SLReturn(EmptyMapping)
          ELSE /\ pc' = "crashed" /\ crashAt' = "_get_cached_usage"
               /\ UNCHANGED <<ret, out>>
    /\ UNCHANGED <<now, creds, file, max_age, read1, usage, nfetch, nwrite, refresh,
                   dvars, oneshot>>

\* The process ends; the next invocation starts from scratch.
SLExit ==
    /\ pc \in {"done", "crashed"}
    /\ pc' = "idle" /\ max_age' = 0 /\ read1' = NoRead
    /\ usage' = Unbound /\ ret' = Unbound /\ nfetch' = 0 /\ nwrite' = 0
    /\ refresh' = "" /\ crashAt' = "" /\ out' = NoLine
    /\ UNCHANGED <<now, creds, file, dvars, oneshot>>

Statusline ==
    \/ SLStart \/ SLRead \/ SLFetch \/ SLWriteOpen
    \/ SLWriteData \/ SLFallback \/ SLExit

\* ------------------------------------------------------------- cmd_daemon
\* A sleep that returns at once.
SleepUntil_AtOnce(t, secs) == t

\* time.sleep(interval), line 204, called at time t: it returns at t + secs
\* at the earliest.
SleepUntil(t, secs) == t + secs

\* The process is gone: its locals with it. What a write in progress had
\* found and was about to store stays on record.
DaemonExit ==
    /\ dpc' = "exited" /\ wake' = 0 /\ dlog' = "none"
    /\ IF dpc = "write_data"
       THEN UNCHANGED <<ddata, dprev>>
       ELSE ddata' = Unbound /\ dprev' = Unbound

\* An exception raised inside the loop's try block (lines 190-200): on to
\* the handler at line 202 when the except clause catches it, out of the
\* process otherwise.
DaemonRaise(exc) ==
    IF IsInstance(exc, DaemonExcept)
    THEN /\ dpc' = "log_err" /\ ddata' = Unbound /\ dprev' = Unbound
         /\ UNCHANGED <<wake, dlog>>
    ELSE DaemonExit

\* Lines 181-187: install the signal handlers, print the banner.
DaemonLaunch ==
    /\ dpc \in {"off", "exited"}
    /\ dpc' = "fetch" /\ interval' \in 1..MaxInterval
    /\ wake' = 0 /\ ddata' = Unbound /\ dprev' = Unbound /\ dlog' = "none"
    /\ UNCHANGED <<now, creds, file, slvars, oneshot>>

\* Lines 191-193: fetch_usage(), get_plan(), build_usage_json().
DaemonFetch ==
    /\ dpc = "fetch"
    /\ \E net \in NetOutcomes :
          LET r == fetch_usage(creds, now, net)
              b == build_usage_json(r.data, get_plan(creds), now)
          IN IF ~r.ok
             THEN DaemonRaise(r.exc)
             ELSE IF ~b.ok
             THEN DaemonRaise(b.exc)
             ELSE /\ dpc' = "write_open" /\ ddata' = b.val
                  /\ UNCHANGED <<dprev, wake, dlog>>
    /\ UNCHANGED <<now, creds, file, slvars, interval, oneshot>>

\* Line 194, first half: open for writing truncates the file.
DaemonWriteOpen ==
    /\ dpc = "write_open"
    /\ \E opened \in BOOLEAN :
          IF opened
          THEN /\ file' = OpenForWrite(file) /\ dprev' = file /\ dpc' = "write_data"
               /\ UNCHANGED <<ddata, wake, dlog>>
          ELSE file' = file /\ DaemonRaise("OSError")
    /\ UNCHANGED <<now, creds, slvars, interval, oneshot>>

\* Line 194, second half: flush and close.
DaemonWriteData ==
    /\ dpc = "write_data"
    /\ \E written \in BOOLEAN :
          IF written
          THEN /\ file' = WriteAtStart(file, ddata) /\ dpc' = "log" /\ dprev' = Unbound
               /\ UNCHANGED <<ddata, wake, dlog>>
          ELSE file' = file /\ DaemonRaise("OSError")
    /\ UNCHANGED <<now, creds, slvars, interval, oneshot>>

\* Lines 195-200 and the call of time.sleep at line 204.
DaemonLog ==
    /\ dpc = "log"
    /\ dlog' = "summary" /\ dpc' = "sleep" /\ wake' = SleepUntil(now, interval)
    /\ ddata' = Unbound
    /\ UNCHANGED <<now, creds, file, slvars, interval, dprev, oneshot>>

\* Line 202 and the call of time.sleep at line 204.
DaemonLogError ==
    /\ dpc = "log_err"
    /\ dlog' = "error" /\ dpc' = "sleep" /\ wake' = SleepUntil(now, interval)
    /\ UNCHANGED <<now, creds, file, slvars, interval, ddata, dprev,
                   oneshot>>

\* time.sleep(interval) returns; back to line 189.
DaemonWake ==
    /\ dpc = "sleep"
    /\ now >= wake
    /\ dpc' = "fetch" /\ dlog' = "none" /\ wake' = 0
    /\ UNCHANGED <<now, creds, file, slvars, interval, ddata, dprev,
                   oneshot>>

\* SIGINT or SIGTERM: the handler of lines 183-184 raises SystemExit in the
\* main thread, wherever it is. Inside the try block the except clause of
\* line 201 gets to see it; elsewhere nothing does.
Signal ==
    /\ dpc \notin {"off", "exited"}
    /\ IF dpc \in {"fetch", "write_open", "write_data", "log"}
       THEN DaemonRaise("SystemExit")
       ELSE DaemonExit
    /\ UNCHANGED <<now, creds, file, slvars, interval, oneshot>>

Daemon ==
    \/ DaemonLaunch \/ DaemonFetch \/ DaemonWriteOpen
    \/ DaemonWriteData \/ DaemonLog \/ DaemonLogError \/ DaemonWake

\* ------------------------------------------------- cmd_status (status, json)
\* Lines 124-178 under main(): fetch, normalize, print, as a table or as
\* JSON. An exception leaves the process with a traceback and a non-zero
\* exit status. Nothing here opens the cache file.
CmdStatus ==
    /\ \E net \in NetOutcomes :
          LET r == fetch_usage(creds, now, net)
              b == build_usage_json(r.data, get_plan(creds), now)
          IN IF ~r.ok
             THEN oneshot' = [ran |-> TRUE, exit |-> 1, err |-> r.msg]
             ELSE IF ~b.ok
             THEN oneshot' = [ran |-> TRUE, exit |-> 1, err |-> b.exc]
             ELSE oneshot' = [ran |-> TRUE, exit |-> 0, err |-> ""]
    /\ UNCHANGED <<now, creds, file, slvars, dvars>>

\* ------------------------------------ main: the one-shot commands in detail
\* What a process wrote to its error stream. An exception that nothing
\* catches reaches the interpreter, which prints the traceback, frame by
\* frame, and then the exception's own line.
Stderr(traceback, msg) == [traceback |-> traceback, msg |-> msg]

NoStderr == Stderr(FALSE, "")

\* main (lines 333-343) calls the command without a try block.
Uncaught(msg) == Stderr(TRUE, msg)

\* How one run ended: the command, its exit status, its error stream,
\* whether it sent the HTTP request, the response it got, the data it built
\* at line 128 (or read from the cache), and what it printed.
Run(cmd, exit, stderr, http, raw, data, stdout) ==
    [cmd |-> cmd, exit |-> exit, stderr |-> stderr, http |-> http,
     raw |-> raw, data |-> data, stdout |-> stdout]

NotRun == Run("none", 0, NoStderr, FALSE, RespNoBuckets, Unbound, NoLine)

\* json.dumps(data, indent=2), line 131: every key of the data, no colours.
JsonDump(data) ==
    Line(TRUE, data.plan, {k \in BucketKeys : data.b[k].present}, NoColors)

\* Lines 124-178 under main(), for `status` and `json`, with the responses
\* the network may give.
OneShotWith(nets) ==
    /\ \E raw_json \in BOOLEAN, net \in nets :
          LET cmd == IF raw_json THEN "json" ELSE "status"
              r == fetch_usage(creds, now, net)
              b == build_usage_json(r.data, get_plan(creds), now)
          IN oneshot' =
                IF ~r.ok
                THEN Run(cmd, 1, Uncaught(r.msg), r.http, r.data, Unbound, NoLine)
                ELSE IF ~b.ok
                THEN Run(cmd, 1, Uncaught(b.exc), r.http, r.data, Unbound, NoLine)
                ELSE Run(cmd, 0, NoStderr, r.http, r.data, b.val,
                         IF raw_json THEN JsonDump(b.val) ELSE StatusTable(b.val))
    /\ UNCHANGED <<now, creds, file, slvars, dvars>>

\* Every shape a bucket of the response takes: null, no key, {}, with and
\* without resets_at.
RawKinds ==
    {RawNull, RawAbsent, RawEmpty,
     RawBucket("obj", TRUE, 35, TRUE, 5),
     RawBucket("obj", TRUE, 14, FALSE, NoneVal)}

\* The responses with at most two buckets that are not null, and one that
\* normalization rejects.
OneShotResponses ==
    {r \in [ApiKeys -> RawKinds] : Cardinality({k \in ApiKeys : r[k] # RawNull}) <= 2}
        \cup {RespNoUtil}

OneShotNet ==
    {[kind |-> "error", body |-> RespNoBuckets]}
        \cup {[kind |-> "ok", body |-> r] : r \in OneShotResponses}

OneShot == OneShotWith(OneShotNet)

\* statusline.py main, lines 46-88: parse stdin, read the cache file (any
\* failure gives {}), print the line. A value without .get ends the script
\* with a traceback.
ScriptStatusline ==
    /\ \E stdin \in {"object", "malformed", "nonobject"} :
          LET r == read_usage_file(file)
              u == IF r.ok THEN r.val ELSE EmptyMapping
          IN oneshot' =
                IF stdin = "nonobject" \/ u.kind # "obj"
                THEN Run("statusline.py", 1, Uncaught("AttributeError"), FALSE,
                         RespNoBuckets, IF stdin = "nonobject" THEN Unbound ELSE u, NoLine)
                ELSE Run("statusline.py", 0, NoStderr, FALSE, RespNoBuckets, u,
                         ScriptLine(u))
    /\ UNCHANGED <<now, creds, file, slvars, dvars>>

\* ---------------------------------------------------------- specification
\* The status line and the daemon side by side, the daemon under signals.
Next ==
    \/ Tick \/ CredsUpdate
    \/ Statusline \/ Daemon \/ Signal

Spec == Init /\ [][Next]_vars

\* All four commands, in any order, on one credentials file.
NextCommands ==
    \/ Tick
    \/ Statusline \/ Daemon
    \/ CmdStatus

SpecCommands == Init /\ [][NextCommands]_vars

\* The daemon on its own, left alone by signals. The process keeps being
\* scheduled and the clock keeps running.
NextUnsignalled ==
    \/ Tick \/ CredsUpdate
    \/ Daemon

SpecUnsignalled ==
    Init /\ [][NextUnsignalled]_vars /\ WF_vars(Daemon) /\ WF_vars(Tick)

\* One status-line process at a time and no other writer. The process keeps
\* being scheduled.
NextSolo ==
    \/ Tick \/ CredsUpdate
    \/ Statusline

SpecSolo == Init /\ [][NextSolo]_vars /\ WF_vars(Statusline)

\* The one-shot commands on their own, run at any time from one second
\* past the epoch on, against each kind of credentials file.
InitOneShot ==
    /\ now = 1
    /\ creds \in OneShotCreds
    /\ file \in {Absent, OldSnapshot}
    /\ NotStarted
    /\ oneshot = NotRun

NextOneShot ==
    \/ Tick
    \/ OneShot

SpecOneShot == InitOneShot /\ [][NextOneShot]_vars

\* A response whose five_hour bucket stands at p percent.
RespPct(p) ==
    [k \in ApiKeys |->
        IF k = "five_hour" THEN RawBucket("obj", TRUE, p, TRUE, 5) ELSE RawNull]

\* The `status` and `json` commands while the service reports the very
\* utilization the cache file holds.
RenderStatus ==
    OneShotWith({[kind |-> "ok", body |-> RespPct(file.b["5h"].pct)]})

\* The three renderers side by side on one percentage: the cache file
\* holds a snapshot just taken, so the status line serves it as it is, and
\* the service reports the same utilization to `status`.
InitRender ==
    /\ now = 1
    /\ creds = CredsTokenLate
    /\ file \in {build_usage_json(RespPct(p), "max_5x", 1).val : p \in 0..MaxPct}
    /\ NotStarted
    /\ oneshot = NotRun

NextRender ==
    \/ SLStart \/ SLRead \/ SLExit
    \/ ScriptStatusline
    \/ RenderStatus

SpecRender == InitRender /\ [][NextRender]_vars

\* ------------------------------------------------------------------ claims
\* The current call of _get_cached_usage has returned (cmd_statusline went on
\* to its usage.get and print).
Returned == pc = "done" \/ (pc = "crashed" /\ crashAt = "render")

\* The first try block read and parsed a snapshot and computed its age.
Read1Ok == read1.done /\ read1.exc = ""

\* The first try block raised: no file, no JSON, or no usable updated_at.
Read1Failed == read1.done /\ read1.exc # ""

\* The refresh failed before anything was written: credentials, token,
\* network, HTTP, parse or normalization.
FetchFailed == refresh \in {"fetch_failed", "build_failed"}

\* C1: fast path. Whenever the first read parsed a snapshot whose age is
\* strictly below max_age, the call has returned exactly that snapshot,
\* without calling the fetcher and without opening the cache file for
\* writing.
C1_FastPath ==
    (Read1Ok /\ read1.age < max_age) =>
        /\ pc = "done"
        /\ ret = read1.val
        /\ nfetch = 0 /\ nwrite = 0 /\ refresh = ""

\* A snapshot one second short of max_age, served from the cache.
C1_Witness ==
    /\ Read1Ok /\ read1.age > 0 /\ read1.age = max_age - 1
    /\ pc = "done" /\ ret = read1.val

\* C2: the stale boundary is inclusive. A snapshot aged max_age or more sends
\* the call to the fetcher (it is about to call it, or has called it once),
\* and a call gets past the first try block without the fetcher only with a
\* snapshot aged strictly less than max_age.
C2_StaleInclusive ==
    read1.done =>
        /\ (Read1Ok /\ read1.age >= max_age) =>
               ((pc = "fetch" /\ nfetch = 0) \/ nfetch = 1)
        /\ (nfetch = 0 /\ pc # "fetch") => (Read1Ok /\ read1.age < max_age)

\* A snapshot exactly max_age old, and the fetcher called for it.
C2_Witness == Read1Ok /\ read1.age = max_age /\ nfetch = 1

\* C3: degradation to stale data. When the first read gave a stale snapshot
\* and the refresh failed, the call returns exactly that snapshot, whatever
\* another process does to the cache file in the meantime.
C3_StaleFallback ==
    (Returned /\ Read1Ok /\ read1.age >= max_age /\ FetchFailed) =>
        ret = read1.val

\* C4: degradation floor. When the first read failed (no file, no JSON, or a
\* JSON value without a usable updated_at) and the refresh failed too, the
\* call returns the empty mapping.
C4_Floor ==
    (Returned /\ Read1Failed /\ FetchFailed) => ret = EmptyMapping

\* C5: the gated refresh never fails outward. No exception leaves
\* _get_cached_usage, whatever the cache state, the fetch outcome and the
\* write outcome; a call that is over has returned a value.
C5_NeverFailsOutward ==
    /\ crashAt # "_get_cached_usage"
    /\ pc = "crashed" => crashAt \in {"stdin", "render"}
    /\ Returned => ret.kind \in {"obj", "nonobj"}

\* An unreadable cache, a successful fetch, a write that truncated the file
\* and then failed: the call still returns, with the empty mapping.
C5_Witness ==
    /\ pc = "done" /\ read1.exc = "JSONDecodeError"
    /\ refresh = "flush_failed" /\ ret = EmptyMapping

\* C6: the status line always prints. Whatever the cache state and the fetch
\* outcome, cmd_statusline gets to its print and does not end with an error
\* that comes from the usage data.
C6_AlwaysPrints ==
    /\ pc = "crashed" => crashAt = "stdin"
    /\ pc = "done" => out.printed

\* C8: whole-file overwrite visibility. A status-line read (first read or
\* fallback read) that happens while the daemon is overwriting a snapshot in
\* the cache file sees the complete old snapshot or the complete new one.
C8_ReaderSeesWholeFile ==
    [][(pc \in {"read", "fallback"} /\ pc' # pc
            /\ dpc = "write_data" /\ IsSnapshot(dprev))
          => file \in {dprev, ddata}]_vars

\* C9: no partial write on termination. When a signal ends the daemon in the
\* middle of overwriting a snapshot, the cache file holds the complete
\* previous snapshot or the complete new snapshot.
C9_NoPartialWriteOnSignal ==
    (dpc = "exited" /\ IsSnapshot(dprev)) => file \in {dprev, ddata}

\* The snapshots a fetch at time t with credentials c can produce.
NewSnapshots(c, t) ==
    {build_usage_json(r, get_plan(c), t).val :
        r \in {x \in ApiResponses : build_usage_json(x, get_plan(c), t).ok}}

\* A step in which the daemon or the status line opens the cache file for
\* writing, holding the snapshot it has just fetched and built.
WriteOpened ==
    \/ pc = "write_open" /\ pc' = "write_data" /\ nfetch = 1 /\ IsSnapshot(usage)
    \/ dpc = "write_open" /\ dpc' = "write_data" /\ IsSnapshot(ddata)

\* A step in which status or json ran.
OneShotRan == oneshot' # oneshot

\* C7 as stated: the cache file is absent until the first successful fetch,
\* every successful fetch by any command (status and json included) leaves
\* the new snapshot in it, and once present it never becomes absent.
C7_LifecycleAnyCommand ==
    [][/\ file = Absent => (file' = Absent \/ WriteOpened)
       /\ file # Absent => file' # Absent
       /\ (OneShotRan /\ oneshot'.exit = 0) => file' \in NewSnapshots(creds, now)
       /\ (pc = "write_data" /\ refresh' = "ok") => file' = usage
       /\ (dpc = "write_data" /\ dpc' = "log") => file' = ddata]_vars

\* C7, amended: the cache file is absent until a daemon iteration or a
\* status-line refresh whose fetch and normalization succeeded opens it for
\* writing; status and json never change the file; a daemon iteration or
\* status-line refresh whose write completes leaves exactly its new snapshot
\* in the file when no other writer has stored anything since that write
\* truncated the file, and otherwise its new snapshot or that snapshot
\* followed by the tail of the other writer's text; and once present the file
\* never becomes absent.
C7_Lifecycle ==
    [][/\ file = Absent => (file' = Absent \/ WriteOpened)
       /\ file # Absent => file' # Absent
       /\ OneShotRan => file' = file
       /\ (pc = "write_data" /\ refresh' = "ok") =>
              IF file = Empty THEN file' = usage ELSE file' \in {usage, Garbage}
       /\ (dpc = "write_data" /\ dpc' = "log") =>
              IF file = Empty THEN file' = ddata ELSE file' \in {ddata, Garbage}]_vars

\* A status-line refresh has just stored its snapshot, the daemon has stored
\* one before and sleeps, and status or json has run with success.
C7_Witness ==
    /\ pc = "done" /\ refresh = "ok" /\ file = ret /\ IsSnapshot(file)
    /\ dpc = "sleep" /\ dlog = "summary"
    /\ oneshot.ran /\ oneshot.exit = 0

\* C10: a bad daemon cycle is not fatal. Without a signal the daemon never
\* exits; a step of an iteration either succeeds or leads to the handler,
\* which logs an error line and goes to sleep; every iteration, good or bad,
\* reaches the sleep; and the sleep ends with the next fetch attempt (as far
\* as the explored clock reaches).
C10_BadCycleNotFatal ==
    /\ [](dpc # "exited")
    /\ [][/\ dpc = "fetch" => dpc' \in {"fetch", "write_open", "log_err"}
          /\ dpc = "write_open" => dpc' \in {"write_open", "write_data", "log_err"}
          /\ dpc = "write_data" => dpc' \in {"write_data", "log", "log_err"}
          /\ dpc = "log_err" => (dpc' = "log_err" \/ (dpc' = "sleep" /\ dlog' = "error"))
          /\ dpc = "sleep" => dpc' \in {"sleep", "fetch"}]_vars
    /\ (dpc \in {"fetch", "write_open", "write_data", "log"}) ~> (dpc = "sleep")
    /\ (dpc = "log_err") ~> (dpc = "sleep" /\ dlog = "error")
    /\ (dpc = "sleep" /\ wake <= MaxTime) ~> (dpc = "fetch")

\* The cache write failed after it had truncated the file; the daemon logged
\* the error and sleeps until the next iteration.
C10_Witness ==
    dpc = "sleep" /\ dlog = "error" /\ file = Empty /\ wake <= MaxTime

\* The message of each precondition of fetch_usage, lines 68, 73 and 77.
MsgNoCredentials == "No credentials"
MsgNoToken == "No OAuth access token"
MsgExpired == "OAuth token expired"
\* The error of a request that did not bring back a JSON body, lines 88-89.
MsgFetchFailed == "fetch failed"

\* C11: fetcher preconditions. A run of status or json fails with the
\* credentials message when there are no credentials, else with the token
\* message when there is no access token, else with the expiry message when
\* expiresAt is missing or now_ms > expiresAt, in each case without an HTTP
\* request; in every other case (now_ms <= expiresAt) the request is sent
\* and none of the three messages appears. The three messages differ.
C11_FetchPreconditions ==
    [][(oneshot' # oneshot) =>
          LET run == oneshot'
              now_ms == now * 1000
              failsWith(msg) ==
                  /\ run.exit # 0 /\ run.stderr.msg = msg /\ ~run.http
          IN /\ Cardinality({MsgNoCredentials, MsgNoToken, MsgExpired}) = 3
             /\ creds.kind = "none" => failsWith(MsgNoCredentials)
             /\ (creds.kind # "none" /\ ~creds.accessToken) => failsWith(MsgNoToken)
             /\ (creds.kind # "none" /\ creds.accessToken
                    /\ (creds.expiresAt = NoExpiry \/ now_ms > creds.expiresAt))
                   => failsWith(MsgExpired)
             /\ (creds.kind # "none" /\ creds.accessToken
                    /\ creds.expiresAt # NoExpiry /\ now_ms <= creds.expiresAt)
                   => /\ run.http
                      /\ run.stderr.msg \notin {MsgNoCredentials, MsgNoToken, MsgExpired}]_vars

\* A run at the very millisecond of expiry: the request went out and the
\* command succeeded.
C11_Witness ==
    /\ oneshot.cmd = "status" /\ oneshot.http /\ oneshot.exit = 0
    /\ creds.accessToken /\ now * 1000 = creds.expiresAt

\* C12: normalization keeps exactly the non-null buckets. In the data a
\* successful run built from the response, a bucket key is present if and
\* only if the response has that bucket and it is not null (an empty object
\* counts as non-null), and a bucket has a resets_at key only when the
\* response's bucket had one.
C12_NormalizationKeys ==
    (oneshot.cmd = "json" /\ oneshot.exit = 0) =>
        \A k \in BucketKeys :
            /\ oneshot.data.b[k].present
                  <=> oneshot.raw[ApiKey(k)].kind \notin {"null", "absent"}
            /\ oneshot.data.b[k].has_resets_at => oneshot.raw[ApiKey(k)].hasResets

\* C13: one-shot commands surface fetch errors as failure. A run of status
\* or json whose fetch failed (credentials, token, expiry, network) exits
\* non-zero, prints nothing on standard output, leaves the cache file alone
\* and writes exactly one line, the message, to the error stream.
C13_OneShotErrors ==
    [][(oneshot' # oneshot
          /\ oneshot'.stderr.msg
                \in {MsgNoCredentials, MsgNoToken, MsgExpired, MsgFetchFailed}) =>
          /\ oneshot'.exit # 0
          /\ ~oneshot'.stdout.printed
          /\ file' = file
          /\ oneshot'.stderr.msg # "" /\ ~oneshot'.stderr.traceback]_vars

\* C14: one colour rule in all three renderers. For the percentage p of the
\* 5h bucket, the table of `status`, the line of `statusline` and the line
\* of statusline.py all show it in the high-alert colour when p >= 70, in
\* the caution colour when 50 <= p < 70, and in the nominal colour when
\* p < 50.
C14_ColorTiers ==
    LET p == file.b["5h"].pct
        tier == CASE p >= 70 -> "R"
                  [] p >= 50 /\ p < 70 -> "Y"
                  [] p < 50 -> "G"
    IN /\ pc = "done" => out.colors["5h"] = tier
       /\ (oneshot.cmd = "status" /\ oneshot.exit = 0)
             => oneshot.stdout.colors["5h"] = tier
       /\ (oneshot.cmd = "statusline.py" /\ oneshot.exit = 0)
             => oneshot.stdout.colors["5h"] = tier

\* At 69 percent the status line and statusline.py both show caution.
C14_Witness ==
    /\ file.b["5h"].pct = 69
    /\ pc = "done" /\ out.colors["5h"] = "Y"
    /\ oneshot.cmd = "statusline.py" /\ oneshot.stdout.colors["5h"] = "Y"

\* C15: the daemon loop has no freshness gate and sleeps once per iteration.
\* From the top of the loop the daemon always goes through the fetch (on to
\* the write or to the error handler, never straight to the sleep),
\* whatever the cache file holds; the sleep is entered only from the end of
\* an iteration, good or bad, and lasts the configured interval; and the
\* next fetch starts only from a sleep that has lasted that long.
C15_NoGatingOneSleep ==
    [][/\ (dpc = "fetch" /\ dpc' # "fetch") => dpc' \in {"write_open", "log_err"}
       /\ (dpc' = "sleep" /\ dpc # "sleep") =>
              /\ dpc \in {"log", "log_err"}
              /\ wake' = now + interval
       /\ (dpc = "sleep" /\ dpc' # "sleep") =>
              /\ dpc' = "fetch"
              /\ now >= wake
       /\ (dpc = "sleep" /\ dpc' = "sleep") => wake' = wake
       /\ (dpc' = "fetch" /\ dpc # "fetch") => dpc \in {"off", "sleep"}]_vars

\* The cache file holds a snapshot taken this very second, and the daemon
\* has fetched all the same and is about to write.
C15_Witness ==
    /\ dpc = "write_open" /\ IsSnapshot(file) /\ file.upd = now
    /\ IsSnapshot(ddata)

\* C16: successful refresh. The snapshot a call builds is stamped with the
\* time of its normalization; when the write completes the call returns that
\* snapshot, not the one it read, and with no other process the cache file
\* holds exactly the returned snapshot; and a call that reads a snapshot
\* stamped with the present time serves it from the cache without a fetch,
\* for any max_age of at least one second.
C16_RefreshSucceeds ==
    [][/\ (pc = "fetch" /\ pc' = "write_open") =>
              /\ IsSnapshot(usage') /\ usage'.upd = now
              /\ usage' \in NewSnapshots(creds, now)
       /\ (pc = "write_data" /\ refresh' = "ok") =>
              /\ pc' = "done" /\ ret' = usage /\ file' = ret'
              /\ IsSnapshot(ret') /\ ret'.upd <= now
              /\ Read1Ok => ret'.upd > read1.val.upd
       /\ (pc = "read" /\ pc' # "read" /\ IsSnapshot(file) /\ file.upd = now) =>
              /\ pc' = "done" /\ ret' = file /\ nfetch' = 0 /\ file' = file]_vars

\* No cache file at first; the refresh stored a snapshot and the call
\* returned it.
C16_Witness ==
    /\ pc = "done" /\ refresh = "ok" /\ read1.exc = "FileNotFoundError"
    /\ IsSnapshot(ret) /\ file = ret

\* C18: bounded effects of a call. A call makes at most one fetch and opens
\* the cache file for writing at most once, and only after its own fetch and
\* normalization succeeded; until it opens the file for writing it leaves
\* the file as it found it, so a call whose fetch fails never changes it;
\* and every call that has started its first read returns.
C18_BoundedEffects ==
    /\ [](/\ nfetch <= 1 /\ nwrite <= 1
          /\ nwrite = 1 => (nfetch = 1 /\ ~FetchFailed)
          /\ FetchFailed => nwrite = 0)
    /\ [][nwrite' = 0 => file' = file]_vars
    /\ (pc = "read") ~> Returned

\* A stale snapshot, one failed fetch, no write: the call has returned and
\* the file still holds what the call first read.
C18_Witness ==
    /\ pc = "done" /\ Read1Ok /\ refresh = "fetch_failed"
    /\ nfetch = 1 /\ nwrite = 0 /\ file = read1.val

\* C17: updated_at of the cache file. A snapshot in the cache file is never
\* stamped later than the present; the snapshot a fetch builds, in the
\* status line or in the daemon, is stamped with the time of that
\* normalization and stays as built until it is stored; the cache file comes
\* to hold a new snapshot only by a writer storing the snapshot it built;
\* and a return from the cache or from the fallback changes nothing in the
\* file and hands out the file's stamp as it is.
C17_UpdatedAtIsFetchTime ==
    /\ [](IsSnapshot(file) => file.upd <= now)
    /\ [][/\ (pc = "fetch" /\ pc' = "write_open") => usage'.upd = now
          /\ (dpc = "fetch" /\ dpc' = "write_open") => ddata'.upd = now
          /\ (pc = "write_open" /\ pc' = "write_data") => usage' = usage
          /\ (dpc = "write_open" /\ dpc' = "write_data") => ddata' = ddata
          /\ (file' # file /\ IsSnapshot(file')) =>
                 \/ pc = "write_data" /\ file' = usage
                 \/ dpc = "write_data" /\ file' = ddata
          /\ (pc \in {"read", "fallback"} /\ pc' = "done") =>
                 /\ file' = file
                 /\ IsSnapshot(ret') => ret' = file]_vars

\* A snapshot fetched at an earlier second is served from the cache, stamp
\* untouched.
C17_Witness ==
    /\ pc = "done" /\ nfetch = 0 /\ IsSnapshot(file) /\ ret = file
    /\ file.upd > 0 /\ file.upd < now

C20_MonotonicCache ==
    [][/\ (dpc = "write_data" /\ dpc' = "log"
             /\ IsSnapshot(dprev) /\ IsSnapshot(file')) =>
              file'.upd >= dprev.upd
       /\ (IsSnapshot(file) /\ IsSnapshot(file')) => file'.upd >= file.upd]_vars

====
